---- MODULE Spec2Model ----
(***************************************************************************)
(* A model of the match-iteration layer (src/src/re_trait.rs) and of the   *)
(* AST builders, the flags model, the class sets, the class lookups and    *)
(* the printed forms (src/regex-syntax-2/src/ast.rs).                      *)
(*                                                                         *)
(* Offsets are naturals.  An Option<T> is a sequence of length at most 1:  *)
(* None is <<>> and Some(x) is <<x>>.  A match (s, e) is the pair <<s, e>>.*)
(***************************************************************************)
EXTENDS Integers, Sequences, FiniteSets, TLC

\* Longest text a FindMatches iterator is run over.
MaxLen == 3
\* Longest text a FindCaptures iterator is run over.
MaxCapLen == 2
\* Longest text two iterators of each kind are run over side by side.
MaxTwinLen == 1
\* The amounts by which an engine's next_after_empty advances past i.
NaeSteps == {1, 2}
\* Longest list of flag items.
MaxItems == 3
\* Most children pushed onto an Alternation or Concat builder.
MaxChildren == 3
\* Most items pushed onto a class-set union.
MaxUnionItems == 3
\* Most digits written between the braces of a hex escape or after the
\* backslash of an octal escape.
MaxDigits == 3
\* The longest union that is an operand of a class-set operation.
MaxOperandItems == 1

None == <<>>
Some(x) == <<x>>

VARIABLES
    text_len,   \* self.text.as_ref().len()
    re,         \* the engine: find_at, captures_at, next_after_empty
    fm,         \* the FindMatches iterator: last_end, last_match
    fm_call,    \* what the last FindMatches::next() did and returned
    yielded,    \* the matches FindMatches has yielded, in order
    fc,         \* the FindMatches inside the FindCaptures iterator
    fc_call,    \* what the last FindCaptures::next() did and returned
    cyielded,   \* the slot vectors FindCaptures has yielded, in order
    items,      \* AstFlags.items
    flags_call, \* the last call on the flags: add_item or flag_state
    builder,    \* an AstAlternation or AstConcat under construction, if any
    into_call,  \* the last call of into_ast: the builder consumed, the Ast
    union,      \* an AstClassSetUnion: span and items
    union_call, \* the last call of push: the union before it, the item
    pure_call,  \* a call of a function of its arguments: fn, arg, ret
    fm2,        \* a second FindMatches iterator over the same text and engine
    yielded2,   \* the matches the second FindMatches has yielded
    fc2,        \* the FindMatches inside a second FindCaptures iterator
    cyielded2   \* the slot vectors the second FindCaptures has yielded

iter_vars == <<text_len, re, fm, fm_call, yielded, fc, fc_call, cyielded>>
flags_vars == <<items, flags_call>>
ast_vars == <<builder, into_call>>
union_vars == <<union, union_call>>
twin_vars == <<fm2, yielded2, fc2, cyielded2>>
rest_vars == <<union_vars, pure_call, twin_vars>>
vars == <<iter_vars, flags_vars, ast_vars, rest_vars>>

----------------------------------------------------------------------------
(* The engine (trait RegularExpression, re_trait.rs:28-78).  An engine is  *)
(* deterministic: find_at and captures_at are functions of the start       *)
(* offset, held as sequences indexed by start + 1.                         *)

\* The capture groups of the engine: 0 is the whole match, 1 the one group.
GroupIds == {0, 1}

\* The results find_at may return for a search from start in a text of
\* length n: none, or a match (s, e) with start <= s <= e <= n.
FindResults(n, start) ==
    {None} \cup {Some(p) : p \in {q \in (start..n) \X (start..n) : q[1] <= q[2]}}

\* What captures_at may report from start: the match m of find_at, and
\* whether group 1 took part in it (g: its span, here the whole match).
CaptureResults(m, withGroup) ==
    {[m |-> m, g |-> None]}
        \cup (IF withGroup /\ m # None THEN {[m |-> m, g |-> m]} ELSE {})

\* All engines' find_at tables over starts 0..k.
RECURSIVE FindTables(_, _)
FindTables(n, k) ==
    IF k < 0 THEN {<<>>}
    ELSE {Append(t, r) : t \in FindTables(n, k - 1), r \in FindResults(n, k)}

\* All captures_at tables that agree with the find_at table t.
RECURSIVE CaptureTables(_, _, _)
CaptureTables(t, k, withGroup) ==
    IF k = 0 THEN {<<>>}
    ELSE {Append(c, r) : c \in CaptureTables(t, k - 1, withGroup),
                         r \in CaptureResults(t[k], withGroup)}

\* All next_after_empty tables over offsets 0..n-1: each result exceeds i.
NaeTables(n) ==
    IF n = 0 THEN {<<>>}
    ELSE {[i \in 1..n |-> (i - 1) + d[i]] : d \in [1..n -> NaeSteps]}

Engines(n, withGroup) ==
    UNION {[find_at : {t}, captures_at : CaptureTables(t, n + 1, withGroup),
            next_after_empty : NaeTables(n)] : t \in FindTables(n, n)}

slots_len == 2 * Cardinality(GroupIds)

next_after_empty(i) == re.next_after_empty[i + 1]

find_at(start) == re.find_at[start + 1]

\* captures_at writes the slots of the groups that took part and returns the
\* match; a slot of a group that did not take part is left as it was.
captures_at(slots, start) ==
    LET c == re.captures_at[start + 1] IN
    [ret |-> c.m,
     slots |->
        IF c.m = None THEN slots
        ELSE [i \in DOMAIN slots |->
                IF i \in {0, 1} THEN Some(c.m[1][i + 1])
                ELSE IF c.g # None THEN Some(c.g[1][i - 1])
                ELSE slots[i]]]

----------------------------------------------------------------------------
(* FindMatches (re_trait.rs:80-124).                                       *)

\* find_iter: a fresh iterator.
find_iter == [last_end |-> 0, last_match |-> None]

\* A faulty variant of the test of line 103: the end of the text counts as
\* past it.
PastText_at_end(self) == self.last_end >= text_len

\* re_trait.rs:103
PastText(self) == self.last_end > text_len

\* Faulty variants of the test of line 112: no test at all, and a test that
\* skips the non-empty matches instead of the empty ones.
IsSkippedEmpty_never(self, s, e) == FALSE

IsSkippedEmpty_inverted(self, s, e) ==
    e # s /\ Some(self.last_end) = self.last_match

\* A faulty variant of the test of line 112: every zero-width match is
\* skipped, whatever was yielded before.
IsSkippedEmpty_all_empty(self, s, e) == e = s

\* re_trait.rs:112
IsSkippedEmpty(self, s, e) == e = s /\ Some(self.last_end) = self.last_match

\* re_trait.rs:113
AtTextEnd(self) == self.last_end >= text_len

\* A faulty variant of lines 116-117: the skip is recorded as a match at
\* the new cursor.
Advance_marks(self) ==
    [last_end |-> next_after_empty(self.last_end),
     last_match |-> Some(next_after_empty(self.last_end))]

\* re_trait.rs:116-117
Advance(self) == [self EXCEPT !.last_end = next_after_empty(self.last_end)]

\* Faulty variants of lines 120-121: the cursor is set to the start of the
\* match; last_match records the start of the match.
Accept_start(self, s, e) == [last_end |-> s, last_match |-> Some(s)]

Accept_match_start(self, s, e) == [last_end |-> e, last_match |-> Some(s)]

\* A faulty variant of lines 120-121: the yield is not recorded.
Accept_no_mark(self, s, e) == [last_end |-> e, last_match |-> self.last_match]

\* re_trait.rs:120-121
Accept(self, s, e) == [last_end |-> e, last_match |-> Some(e)]

\* A faulty variant of next(): a duplicate at the end of the text moves the
\* cursor past the text before the sequence ends.
RECURSIVE FindMatches_next_end_moves(_, _)
FindMatches_next_end_moves(self, log) ==
    IF PastText(self) THEN [self |-> self, ret |-> None, log |-> log]
    ELSE
      LET r    == find_at(self.last_end)
          log1 == [log EXCEPT !.find_at = Append(@, self.last_end)]
      IN
      IF r = None THEN [self |-> self, ret |-> None, log |-> log1]
      ELSE
        LET s == r[1][1]
            e == r[1][2]
        IN
        IF IsSkippedEmpty(self, s, e) THEN
          IF AtTextEnd(self)
          THEN [self |-> [self EXCEPT !.last_end = @ + 1],
                ret |-> None, log |-> log1]
          ELSE FindMatches_next_end_moves(
                 Advance(self),
                 [log1 EXCEPT !.next_after_empty = Append(@, self.last_end)])
        ELSE [self |-> Accept(self, s, e), ret |-> Some(<<s, e>>), log |-> log1]

\* A faulty variant of next(): when the engine finds nothing the iterator
\* starts over.
RECURSIVE FindMatches_next_rewinds(_, _)
FindMatches_next_rewinds(self, log) ==
    IF PastText(self) THEN [self |-> self, ret |-> None, log |-> log]
    ELSE
      LET r    == find_at(self.last_end)
          log1 == [log EXCEPT !.find_at = Append(@, self.last_end)]
      IN
      IF r = None THEN [self |-> find_iter, ret |-> None, log |-> log1]
      ELSE
        LET s == r[1][1]
            e == r[1][2]
        IN
        IF IsSkippedEmpty(self, s, e) THEN
          IF AtTextEnd(self) THEN [self |-> self, ret |-> None, log |-> log1]
          ELSE FindMatches_next_rewinds(
                 Advance(self),
                 [log1 EXCEPT !.next_after_empty = Append(@, self.last_end)])
        ELSE [self |-> Accept(self, s, e), ret |-> Some(<<s, e>>), log |-> log1]

\* A faulty variant of next(): the test of line 103 is left out, and the
\* engine, asked to search from past the text, finds nothing.
RECURSIVE FindMatches_next_unguarded(_, _)
FindMatches_next_unguarded(self, log) ==
    LET r    == IF self.last_end <= text_len THEN find_at(self.last_end)
                ELSE None
        log1 == [log EXCEPT !.find_at = Append(@, self.last_end)]
    IN
    IF r = None THEN [self |-> self, ret |-> None, log |-> log1]
    ELSE
      LET s == r[1][1]
          e == r[1][2]
      IN
      IF IsSkippedEmpty(self, s, e) THEN
        IF AtTextEnd(self) THEN [self |-> self, ret |-> None, log |-> log1]
        ELSE FindMatches_next_unguarded(
               Advance(self),
               [log1 EXCEPT !.next_after_empty = Append(@, self.last_end)])
      ELSE [self |-> Accept(self, s, e), ret |-> Some(<<s, e>>), log |-> log1]

\* One call of FindMatches::next().  log records the engine calls made so
\* far in this call: the starts given to find_at and the offsets given to
\* next_after_empty.  The result holds the iterator after the call, the
\* value returned and the log.
RECURSIVE FindMatches_next(_, _)
FindMatches_next(self, log) ==
    IF PastText(self) THEN [self |-> self, ret |-> None, log |-> log]
    ELSE
      LET r    == find_at(self.last_end)
          log1 == [log EXCEPT !.find_at = Append(@, self.last_end)]
      IN
      IF r = None THEN [self |-> self, ret |-> None, log |-> log1]
      ELSE
        LET s == r[1][1]
            e == r[1][2]
        IN
        IF IsSkippedEmpty(self, s, e) THEN
          IF AtTextEnd(self) THEN [self |-> self, ret |-> None, log |-> log1]
          ELSE FindMatches_next(
                 Advance(self),
                 [log1 EXCEPT !.next_after_empty = Append(@, self.last_end)])
        ELSE [self |-> Accept(self, s, e), ret |-> Some(<<s, e>>), log |-> log1]

NoLog == [find_at |-> <<>>, next_after_empty |-> <<>>]

NoCall(self) == [called |-> FALSE, before |-> self, ret |-> None, log |-> NoLog]

----------------------------------------------------------------------------
(* FindCaptures (re_trait.rs:126-173).                                     *)

\* re_trait.rs:149
NewSlots == [i \in 0..(slots_len - 1) |-> None]

\* A faulty variant: the slots are allocated once per call of next() and the
\* retry after a skip writes into the slots of the skipped attempt.
RECURSIVE FindCaptures_retry_shared(_, _, _)
FindCaptures_retry_shared(self, slots, log) ==
    IF self.last_end > text_len THEN [self |-> self, ret |-> None, log |-> log]
    ELSE
      LET c    == captures_at(slots, self.last_end)
          log1 == [log EXCEPT !.find_at = Append(@, self.last_end)]
      IN
      IF c.ret = None THEN [self |-> self, ret |-> None, log |-> log1]
      ELSE
        LET s == c.ret[1][1]
            e == c.ret[1][2]
        IN
        IF e = s /\ Some(self.last_end) = self.last_match THEN
          IF self.last_end >= text_len THEN [self |-> self, ret |-> None, log |-> log1]
          ELSE FindCaptures_retry_shared(
                 [self EXCEPT !.last_end = next_after_empty(self.last_end)], c.slots,
                 [log1 EXCEPT !.next_after_empty = Append(@, self.last_end)])
        ELSE [self |-> [last_end |-> e, last_match |-> Some(e)],
              ret |-> Some(c.slots), log |-> log1]

FindCaptures_next_shared(self, log) ==
    FindCaptures_retry_shared(self, NewSlots, log)

\* One call of FindCaptures::next(), on the FindMatches it wraps.  Every
\* attempt, the retry after a skip included, allocates its own slots.
RECURSIVE FindCaptures_next(_, _)
FindCaptures_next(self, log) ==
    IF self.last_end > text_len THEN [self |-> self, ret |-> None, log |-> log]
    ELSE
      LET c    == captures_at(NewSlots, self.last_end)
          log1 == [log EXCEPT !.find_at = Append(@, self.last_end)]
      IN
      IF c.ret = None THEN [self |-> self, ret |-> None, log |-> log1]
      ELSE
        LET s == c.ret[1][1]
            e == c.ret[1][2]
        IN
        IF e = s /\ Some(self.last_end) = self.last_match THEN
          IF self.last_end >= text_len THEN [self |-> self, ret |-> None, log |-> log1]
          ELSE FindCaptures_next(
                 [self EXCEPT !.last_end = next_after_empty(self.last_end)],
                 [log1 EXCEPT !.next_after_empty = Append(@, self.last_end)])
        ELSE [self |-> [last_end |-> e, last_match |-> Some(e)],
              ret |-> Some(c.slots), log |-> log1]

----------------------------------------------------------------------------
(* Spans (ast.rs:225-303).  A Position is modelled by its offset.          *)

Span(start, end) == [start |-> start, end |-> end]

----------------------------------------------------------------------------
(* The flags model (ast.rs:1309-1445).                                     *)

\* enum AstFlag
AstFlag == {"CaseInsensitive", "MultiLine", "DotMatchesNewLine",
            "SwapGreed", "Unicode", "IgnoreWhitespace"}

\* enum AstFlagsItemKind
Negation == <<"Negation">>
Flag(f) == <<"Flag", f>>
AstFlagsItemKind == {Negation} \cup {Flag(f) : f \in AstFlag}

\* struct AstFlagsItem: the item of the given kind written at offset o of
\* the pattern (an item is one character wide).
AstFlagsItem(o, kind) == [span |-> Span(o, o + 1), kind |-> kind]

\* A faulty variant of add_item: the whole items are compared, spans
\* included, instead of their kinds.
RECURSIVE add_item_whole_from(_, _, _)
add_item_whole_from(its, item, i) ==
    IF i > Len(its) THEN [items |-> Append(its, item), ret |-> None]
    ELSE IF its[i] = item THEN [items |-> its, ret |-> Some(i - 1)]
    ELSE add_item_whole_from(its, item, i + 1)

add_item_whole(its, item) == add_item_whole_from(its, item, 1)

\* The loop of add_item from the i-th item on (i counts from 1; the index
\* returned counts from 0, as in the source).
RECURSIVE add_item_from(_, _, _)
add_item_from(its, item, i) ==
    IF i > Len(its) THEN [items |-> Append(its, item), ret |-> None]
    ELSE IF its[i].kind = item.kind THEN [items |-> its, ret |-> Some(i - 1)]
    ELSE add_item_from(its, item, i + 1)

\* A faulty variant of add_item: a new item is put before the others.
add_item_prepend(its, item) ==
    LET r == add_item_from(its, item, 1)
    IN  IF r.ret = None THEN [items |-> <<item>> \o its, ret |-> None] ELSE r

\* AstFlags::add_item: the items after the call and the value returned.
add_item(its, item) == add_item_from(its, item, 1)

\* A faulty variant of flag_state: every Negation flips the polarity.
RECURSIVE flag_state_toggle_from(_, _, _, _)
flag_state_toggle_from(its, flag, i, negated) ==
    IF i > Len(its) THEN None
    ELSE IF its[i].kind = Negation
         THEN flag_state_toggle_from(its, flag, i + 1, ~negated)
    ELSE IF its[i].kind = Flag(flag) THEN Some(~negated)
    ELSE flag_state_toggle_from(its, flag, i + 1, negated)

flag_state_toggle(its, flag) == flag_state_toggle_from(its, flag, 1, FALSE)

\* The loop of flag_state from the i-th item on, with the local negated.
RECURSIVE flag_state_from(_, _, _, _)
flag_state_from(its, flag, i, negated) ==
    IF i > Len(its) THEN None
    ELSE IF its[i].kind = Negation
         THEN flag_state_from(its, flag, i + 1, TRUE)
    ELSE IF its[i].kind = Flag(flag) THEN Some(~negated)
    ELSE flag_state_from(its, flag, i + 1, negated)

\* A faulty variant of flag_state: a Negation anywhere in the list negates
\* the flag.
flag_state_any_negation(its, flag) ==
    IF \E i \in 1..Len(its) : its[i].kind = Flag(flag)
    THEN Some(~(\E j \in 1..Len(its) : its[j].kind = Negation))
    ELSE None

\* AstFlags::flag_state
flag_state(its, flag) == flag_state_from(its, flag, 1, FALSE)

----------------------------------------------------------------------------
(* The Ast and its sequence builders (ast.rs:332-462).  An Ast is a record *)
(* of its variant (tag), its span, its children (asts: those of an         *)
(* Alternation or Concat) and, for a Literal, its character c.             *)

Leaf(tag, span, c) == [tag |-> tag, span |-> span, asts |-> <<>>, c |-> c]
Node(tag, span, asts) == [tag |-> tag, span |-> span, asts |-> asts, c |-> ""]

\* Ast::span
AstSpan(ast) == ast.span

\* The Asts a parser hands to a builder: leaves, a nested sequence node,
\* and nodes written out by hand through the public fields.
ChildAsts ==
    {Leaf("Literal", Span(0, 1), "a"),
     Leaf("Dot", Span(1, 2), ""),
     Leaf("Empty", Span(2, 2), ""),
     Node("Concat", Span(0, 2),
          <<Leaf("Literal", Span(0, 1), "a"), Leaf("Dot", Span(1, 2), "")>>),
     Node("Alternation", Span(0, 0), <<>>),
     Node("Concat", Span(0, 1), <<Leaf("Literal", Span(0, 1), "a")>>)}

\* The spans a builder is created with.
BuilderSpans == {Span(0, 0), Span(0, 3)}

\* Faulty variants of into_ast: a single child is kept wrapped; the children
\* are taken off the end of the vector, which reverses them.
AstAlternation_into_ast_wrap(self) ==
    IF Len(self.asts) = 0 THEN Leaf("Empty", self.span, "")
    ELSE Node("Alternation", self.span, self.asts)

AstConcat_into_ast_reversed(self) ==
    IF Len(self.asts) = 0 THEN Leaf("Empty", self.span, "")
    ELSE IF Len(self.asts) = 1 THEN self.asts[Len(self.asts)]
    ELSE Node("Concat", self.span,
              [i \in 1..Len(self.asts) |-> self.asts[Len(self.asts) + 1 - i]])

\* AstAlternation::into_ast
AstAlternation_into_ast(self) ==
    IF Len(self.asts) = 0 THEN Leaf("Empty", self.span, "")
    ELSE IF Len(self.asts) = 1 THEN self.asts[Len(self.asts)]
    ELSE Node("Alternation", self.span, self.asts)

\* A faulty variant of into_ast: the builder is wrapped as it is, however
\* few children it holds.
AstConcat_into_ast_no_collapse(self) == Node("Concat", self.span, self.asts)

\* AstConcat::into_ast
AstConcat_into_ast(self) ==
    IF Len(self.asts) = 0 THEN Leaf("Empty", self.span, "")
    ELSE IF Len(self.asts) = 1 THEN self.asts[Len(self.asts)]
    ELSE Node("Concat", self.span, self.asts)

----------------------------------------------------------------------------
(* The union of a class set (ast.rs:947-1009).  An item is a record of its *)
(* variant (tag) and the span its payload carries.                         *)

\* The offsets at which the spans of class-set items start and end.
ItemOffsets == 0..2

\* AstClassSetItem; the span of an item is whatever its maker wrote.
AstClassSetItem ==
    {[tag |-> tag, span |-> Span(s, e)] :
        tag \in {"Literal", "Class"}, s \in ItemOffsets, e \in ItemOffsets}

\* AstClassSetItem::span
ItemSpan(item) == item.span

\* An AstClassSetUnion with no items.
NewUnion(span) == [span |-> span, items |-> <<>>]

\* The spans an empty union is created with.
UnionSpans == {Span(0, 0), Span(2, 2)}

\* Faulty variants of push: the start is set on every push; the start is
\* never set.
AstClassSetUnion_push_start_always(self, item) ==
    [span |-> ItemSpan(item), items |-> Append(self.items, item)]

AstClassSetUnion_push_keep_start(self, item) ==
    [span |-> Span(self.span.start, ItemSpan(item).end),
     items |-> Append(self.items, item)]

\* AstClassSetUnion::push
AstClassSetUnion_push(self, item) ==
    LET started == IF Len(self.items) = 0
                   THEN [self EXCEPT !.span.start = ItemSpan(item).start]
                   ELSE self
        ended   == [started EXCEPT !.span.end = ItemSpan(item).end]
    IN  [ended EXCEPT !.items = Append(@, item)]

----------------------------------------------------------------------------
(* Classes (ast.rs:670-871).                                               *)

\* AstClassAsciiKind
AstClassAsciiKind ==
    {"Alnum", "Alpha", "Ascii", "Blank", "Cntrl", "Digit", "Graph", "Lower",
     "Print", "Punct", "Space", "Upper", "Word", "Xdigit"}

\* Faulty variants of from_name: the name is matched without regard to
\* case; a name is taken for another's.
AstClassAsciiKind_from_name_nocase(name) ==
    CASE name \in {"alnum", "ALNUM", "Alnum"} -> Some("Alnum")
      [] name \in {"alpha"} -> Some("Alpha")
      [] name \in {"ascii"} -> Some("Ascii")
      [] name \in {"blank"} -> Some("Blank")
      [] name \in {"cntrl"} -> Some("Cntrl")
      [] name \in {"digit", "DIGIT", "Digit"} -> Some("Digit")
      [] name \in {"graph"} -> Some("Graph")
      [] name \in {"lower"} -> Some("Lower")
      [] name \in {"print"} -> Some("Print")
      [] name \in {"punct"} -> Some("Punct")
      [] name \in {"space"} -> Some("Space")
      [] name \in {"upper"} -> Some("Upper")
      [] name \in {"word", "Word"} -> Some("Word")
      [] name \in {"xdigit", "XDigit"} -> Some("Xdigit")
      [] OTHER -> None

\* AstClassAsciiKind::from_name
AstClassAsciiKind_from_name(name) ==
    CASE name = "alnum" -> Some("Alnum")
      [] name = "alpha" -> Some("Alpha")
      [] name = "ascii" -> Some("Ascii")
      [] name = "blank" -> Some("Blank")
      [] name = "cntrl" -> Some("Cntrl")
      [] name = "digit" -> Some("Digit")
      [] name = "graph" -> Some("Graph")
      [] name = "lower" -> Some("Lower")
      [] name = "print" -> Some("Print")
      [] name = "punct" -> Some("Punct")
      [] name = "space" -> Some("Space")
      [] name = "upper" -> Some("Upper")
      [] name = "word" -> Some("Word")
      [] name = "xdigit" -> Some("Xdigit")
      [] OTHER -> None

\* The name Display for AstClassAscii writes between "[:" or "[:^" and ":]".
AstClassAscii_name(kind) ==
    CASE kind = "Alnum" -> "alnum"
      [] kind = "Alpha" -> "alpha"
      [] kind = "Ascii" -> "ascii"
      [] kind = "Blank" -> "blank"
      [] kind = "Cntrl" -> "cntrl"
      [] kind = "Digit" -> "digit"
      [] kind = "Graph" -> "graph"
      [] kind = "Lower" -> "lower"
      [] kind = "Print" -> "print"
      [] kind = "Punct" -> "punct"
      [] kind = "Space" -> "space"
      [] kind = "Upper" -> "upper"
      [] kind = "Word" -> "word"
      [] kind = "Xdigit" -> "xdigit"

\* The names a parser looks up: what stands between "[:" and ":]".
ClassNames ==
    {AstClassAscii_name(kind) : kind \in AstClassAsciiKind}
    \cup {"ALNUM", "Alnum", "DIGIT", "Digit", "Word", "XDigit",
           "", "a", "alnu", "wor", "xdigi", "words", "xdigits", "alphanum",
           "^alnum", "^word", "^", "bogus", "d", "w", "s", " digit", "digit "}

\* AstClassUnicodeOpKind
AstClassUnicodeOpKind == {"Equal", "Colon", "NotEqual"}

\* AstClassUnicodeKind: OneLetter(c), Named(name), NamedValue{op, name, value}
OneLetter(c) == [tag |-> "OneLetter", op |-> "", name |-> c, value |-> ""]
Named(name) == [tag |-> "Named", op |-> "", name |-> name, value |-> ""]
NamedValue(op, name, value) ==
    [tag |-> "NamedValue", op |-> op, name |-> name, value |-> value]

AstClassUnicodeKind ==
    {OneLetter(c) : c \in {"L", "N"}}
    \cup {Named(name) : name \in {"", "Greek"}}
    \cup {NamedValue(op, name, value) :
              op \in AstClassUnicodeOpKind,
              name \in {"", "scx"}, value \in {"", "Katakana"}}

\* AstClassUnicode
AstClassUnicode ==
    {[span |-> Span(0, 2), negated |-> negated, kind |-> kind] :
        negated \in BOOLEAN, kind \in AstClassUnicodeKind}

\* A faulty variant of is_negated: the op is not looked at.
AstClassUnicode_is_negated_raw(self) == self.negated

\* AstClassUnicode::is_negated
AstClassUnicode_is_negated(self) ==
    IF self.kind.tag = "NamedValue" /\ self.kind.op = "NotEqual"
    THEN ~self.negated
    ELSE self.negated

----------------------------------------------------------------------------
(* Literals and their printed form (ast.rs:464-601).  A char is its scalar *)
(* value; printed text is a sequence of one-character strings.             *)

\* AstHexLiteralKind
AstHexLiteralKind == {"X", "UnicodeShort", "UnicodeLong"}

\* AstHexLiteralKind::digits
AstHexLiteralKind_digits(kind) ==
    CASE kind = "X" -> 2
      [] kind = "UnicodeShort" -> 4
      [] kind = "UnicodeLong" -> 8

\* A faulty variant of the digits: the letters are written in lower case.
RECURSIVE Digits_lower(_, _)
Digits_lower(n, base) ==
    LET d == <<"0", "1", "2", "3", "4", "5", "6", "7",
               "8", "9", "a", "b", "c", "d", "e", "f">>[(n % base) + 1]
    IN  IF n < base THEN <<d>> ELSE Append(Digits_lower(n \div base, base), d)

\* The digits of n in the given base, most significant first, no leading
\* zero: what {:X} and {:o} write.
RECURSIVE Digits(_, _)
Digits(n, base) ==
    LET d == <<"0", "1", "2", "3", "4", "5", "6", "7",
               "8", "9", "A", "B", "C", "D", "E", "F">>[(n % base) + 1]
    IN  IF n < base THEN <<d>> ELSE Append(Digits(n \div base, base), d)

\* Faulty variant of the padding: no zero is written.
Padded_none(text, width) == text

\* {:0wX}: zeros are written before the digits up to the width w; a text
\* longer than the width is written whole.
Padded(text, width) ==
    IF Len(text) < width
    THEN [i \in 1..(width - Len(text)) |-> "0"] \o text
    ELSE text

\* The scalar values of the literals: the ends of the ranges that 1, 2, 3,
\* 4, 5 and 6 hex digits write, and some values inside them.
Scalars ==
    {0, 7, 15, 16, 97, 127, 255, 256, 2748, 4095, 4096, 65535, 65536,
     1048575, 1048576, 1114111}

\* AstLiteralKind: Octal, HexFixed(kind) and HexBrace(kind)
Octal == [tag |-> "Octal", hex |-> ""]
HexFixed(kind) == [tag |-> "HexFixed", hex |-> kind]
HexBrace(kind) == [tag |-> "HexBrace", hex |-> kind]

\* The hex literals, one for each kind and scalar value.
HexLiterals ==
    {[span |-> Span(0, 4), kind |-> kind, c |-> c] :
        kind \in {HexFixed(k) : k \in AstHexLiteralKind}
                 \cup {HexBrace(k) : k \in AstHexLiteralKind},
        c \in Scalars}

\* The letter after the backslash of a hex literal.
HexPrefix(kind) ==
    CASE kind = "X" -> <<"\\", "x">>
      [] kind = "UnicodeShort" -> <<"\\", "u">>
      [] kind = "UnicodeLong" -> <<"\\", "U">>

\* Display for AstLiteral, for the octal and hex kinds.
AstLiteral_fmt(self) ==
    CASE self.kind.tag = "Octal" -> <<"\\">> \o Digits(self.c, 8)
      [] self.kind.tag = "HexFixed" ->
            HexPrefix(self.kind.hex)
            \o Padded(Digits(self.c, 16),
                      AstHexLiteralKind_digits(self.kind.hex))
      [] self.kind.tag = "HexBrace" ->
            HexPrefix(self.kind.hex) \o <<"{">> \o Digits(self.c, 16) \o <<"}">>

----------------------------------------------------------------------------
(* The operations of a class set and their printed form (ast.rs:913-1083). *)
(* An AstClassSetOp is a record of its variant (tag) and its payload (x).  *)

\* AstClassSetBinaryOpKind
AstClassSetBinaryOpKind == {"Intersection", "Difference", "SymmetricDifference"}

\* Display for AstClassSetBinaryOpKind
AstClassSetBinaryOpKind_fmt(self) ==
    CASE self = "Intersection" -> <<"&", "&">>
      [] self = "Difference" -> <<"-", "-">>
      [] self = "SymmetricDifference" -> <<"~", "~">>

\* AstClassSetItem::Literal
LiteralItem(lit) == [tag |-> "Literal", lit |-> lit]

\* Display for AstClassSetItem, for a literal.
AstClassSetItem_fmt(self) ==
    CASE self.tag = "Literal" -> AstLiteral_fmt(self.lit)

\* Display for AstClassSetUnion: the items from index i on, one after the
\* other.
RECURSIVE AstClassSetUnion_fmt_from(_, _)
AstClassSetUnion_fmt_from(self, i) ==
    IF i > Len(self.items) THEN <<>>
    ELSE AstClassSetItem_fmt(self.items[i])
         \o AstClassSetUnion_fmt_from(self, i + 1)

\* Display for AstClassSetUnion
AstClassSetUnion_fmt(self) == AstClassSetUnion_fmt_from(self, 1)

\* AstClassSetOp::Union and AstClassSetOp::BinaryOp
Union(x) == [tag |-> "Union", x |-> x]
BinaryOp(x) == [tag |-> "BinaryOp", x |-> x]

\* AstClassSetBinaryOp; the span runs from the start of lhs to the end of
\* rhs.
AstClassSetBinaryOp(kind, lhs, rhs) ==
    [span |-> Span(lhs.x.span.start, rhs.x.span.end), kind |-> kind,
     lhs |-> lhs, rhs |-> rhs]

RECURSIVE AstClassSetOp_fmt(_)

\* A faulty variant of the Display for AstClassSetBinaryOp: an operand that
\* is a binary operation is written in brackets.
AstClassSetBinaryOp_fmt_grouped(self) ==
    LET operand(op) == IF op.tag = "BinaryOp"
                       THEN <<"[">> \o AstClassSetOp_fmt(op) \o <<"]">>
                       ELSE AstClassSetOp_fmt(op)
    IN  operand(self.lhs) \o AstClassSetBinaryOpKind_fmt(self.kind)
        \o operand(self.rhs)

\* Display for AstClassSetBinaryOp
AstClassSetBinaryOp_fmt(self) ==
    AstClassSetOp_fmt(self.lhs) \o AstClassSetBinaryOpKind_fmt(self.kind)
    \o AstClassSetOp_fmt(self.rhs)

\* Display for AstClassSetOp
AstClassSetOp_fmt(self) ==
    CASE self.tag = "Union" -> AstClassSetUnion_fmt(self.x)
      [] self.tag = "BinaryOp" -> AstClassSetBinaryOp_fmt(self.x)

\* The literals of the operands: \x61 and \x{61}.
OperandLiterals ==
    {lit \in HexLiterals :
        lit.c = 97 /\ lit.kind \in {HexFixed("X"), HexBrace("X")}}

\* The unions that are operands: up to MaxOperandItems literals, the span
\* over 4 characters for each.
OperandUnions ==
    {Union([span |-> Span(0, 4 * Len(its)), items |-> its]) :
        its \in UNION {[1..n -> {LiteralItem(lit) : lit \in OperandLiterals}] :
                         n \in 0..MaxOperandItems}}

\* The operations over the operands in ops.
BinaryOpsOver(ops) ==
    {BinaryOp(AstClassSetBinaryOp(kind, lhs, rhs)) :
        kind \in AstClassSetBinaryOpKind, lhs \in ops, rhs \in ops}

\* The hand-built operations: unions, operations on unions, and operations
\* on those.
AstClassSetOps ==
    OperandUnions \cup BinaryOpsOver(OperandUnions)
    \cup BinaryOpsOver(OperandUnions \cup BinaryOpsOver(OperandUnions))

----------------------------------------------------------------------------
(* The printed form of an Ast (ast.rs:376-391, 417-429, 455-462), for the  *)
(* variants of the model; a Literal of the model is a verbatim one.        *)

RECURSIVE Ast_fmt(_)

\* Display for AstAlternation: the children from index i on, a '|' before
\* each but the first.
RECURSIVE AstAlternation_fmt_from(_, _)
AstAlternation_fmt_from(self, i) ==
    IF i > Len(self.asts) THEN <<>>
    ELSE (IF i > 1 THEN <<"|">> ELSE <<>>) \o Ast_fmt(self.asts[i])
         \o AstAlternation_fmt_from(self, i + 1)

\* A faulty variant of the Display for AstAlternation: a '|' follows every
\* child, the last included.
AstAlternation_fmt_trailing(self) ==
    AstAlternation_fmt_from(self, 1)
    \o (IF Len(self.asts) > 0 THEN <<"|">> ELSE <<>>)

\* Display for AstAlternation
AstAlternation_fmt(self) == AstAlternation_fmt_from(self, 1)

\* Display for AstConcat: the children from index i on, one after the
\* other.
RECURSIVE AstConcat_fmt_from(_, _)
AstConcat_fmt_from(self, i) ==
    IF i > Len(self.asts) THEN <<>>
    ELSE Ast_fmt(self.asts[i]) \o AstConcat_fmt_from(self, i + 1)

\* Display for AstConcat
AstConcat_fmt(self) == AstConcat_fmt_from(self, 1)

\* Display for Ast
Ast_fmt(self) ==
    CASE self.tag = "Empty" -> <<>>
      [] self.tag = "Literal" -> <<self.c>>
      [] self.tag = "Dot" -> <<".">>
      [] self.tag = "Alternation" -> AstAlternation_fmt(self)
      [] self.tag = "Concat" -> AstConcat_fmt(self)

----------------------------------------------------------------------------
(* The parser of literal escapes (parse::Parser, used by the tests at      *)
(* ast.rs:1447-1485).  A source text is a sequence of one-character        *)
(* strings.  The parser reads an octal escape (when octal is enabled), a   *)
(* hex escape of the 2, 4 or 8 digits of its kind, or a hex escape of any  *)
(* number of digits in braces; a hex digit is a decimal digit or one of    *)
(* the letters a to f in either case.                                      *)

\* The value of a digit character.
DigitValue(ch) ==
    CASE ch \in {"a", "A"} -> 10
      [] ch \in {"b", "B"} -> 11
      [] ch \in {"c", "C"} -> 12
      [] ch \in {"d", "D"} -> 13
      [] ch \in {"e", "E"} -> 14
      [] ch \in {"f", "F"} -> 15
      [] OTHER -> CHOOSE v \in 0..9 : <<"0", "1", "2", "3", "4",
                                        "5", "6", "7", "8", "9">>[v + 1] = ch

\* The number a text of digits writes in the given base.
RECURSIVE Number(_, _)
Number(text, base) ==
    IF text = <<>> THEN 0
    ELSE base * Number(SubSeq(text, 1, Len(text) - 1), base)
         + DigitValue(text[Len(text)])

\* The kind of hex escape a letter after the backslash begins.
HexKindOf(ch) ==
    CASE ch = "x" -> "X"
      [] ch = "u" -> "UnicodeShort"
      [] ch = "U" -> "UnicodeLong"

\* The literal the parser makes of an escape.
ParseLiteral(source) ==
    LET span == Span(0, Len(source)) IN
    IF source[2] \notin {"x", "u", "U"}
    THEN [span |-> span, kind |-> Octal,
          c |-> Number(SubSeq(source, 2, Len(source)), 8)]
    ELSE IF source[3] = "{"
    THEN [span |-> span, kind |-> HexBrace(HexKindOf(source[2])),
          c |-> Number(SubSeq(source, 4, Len(source) - 1), 16)]
    ELSE [span |-> span, kind |-> HexFixed(HexKindOf(source[2])),
          c |-> Number(SubSeq(source, 3, Len(source)), 16)]

\* The texts of n digits.
Texts(digits, n) == [1..n -> digits]

\* The escapes given to the parser: octal escapes, hex escapes whose last
\* two digits vary and hex escapes in braces, in either case of the letters
\* and with or without a leading zero.
LiteralSources ==
    {<<"\\">> \o t :
        t \in UNION {Texts({"0", "1", "4", "7"}, n) : n \in 1..MaxDigits}}
    \cup {<<"\\", "x">> \o t : t \in Texts({"0", "6", "F", "f"}, 2)}
    \cup {<<"\\", "u", "0", "0">> \o t : t \in Texts({"0", "6", "F", "f"}, 2)}
    \cup {<<"\\", "U", "0", "0", "0", "0", "0", "0">> \o t :
              t \in Texts({"0", "6", "F", "f"}, 2)}
    \cup {<<"\\", p, "{">> \o t \o <<"}">> :
              p \in {"x", "u", "U"},
              t \in UNION {Texts({"0", "6", "F", "f"}, n) : n \in 1..MaxDigits}}

----------------------------------------------------------------------------
(* The state machines.                                                     *)

InitIter(maxLen, withGroup) ==
    /\ text_len \in 0..maxLen
    /\ re \in Engines(text_len, withGroup)
    /\ fm = find_iter
    /\ fm_call = NoCall(find_iter)
    /\ yielded = <<>>
    /\ fc = find_iter
    /\ fc_call = NoCall(find_iter)
    /\ cyielded = <<>>

\* No iterator: an empty text and the engine that finds nothing.
IdleIter ==
    /\ text_len = 0
    /\ re = [find_at |-> <<None>>,
             captures_at |-> <<[m |-> None, g |-> None]>>,
             next_after_empty |-> <<>>]
    /\ fm = find_iter
    /\ fm_call = NoCall(find_iter)
    /\ yielded = <<>>
    /\ fc = find_iter
    /\ fc_call = NoCall(find_iter)
    /\ cyielded = <<>>

NoFlagsCall ==
    [op |-> "none", item |-> AstFlagsItem(0, Negation),
     flag |-> "", before |-> <<>>, index |-> None, state |-> None]

IdleFlags == items = <<>> /\ flags_call = NoFlagsCall

IdleAst == builder = None /\ into_call = None

IdleUnion == union = NewUnion(Span(0, 0)) /\ union_call = None

IdlePure == pure_call = None

IdleTwins ==
    fm2 = find_iter /\ yielded2 = <<>> /\ fc2 = find_iter /\ cyielded2 = <<>>

IdleRest == IdleUnion /\ IdlePure /\ IdleTwins

\* A call of next() on the FindMatches iterator.  The history of yielded
\* matches is kept one entry past the text_len + 1 matches a run can give.
FindMatchesNext ==
    /\ Len(yielded) <= text_len + 1
    /\ LET r == FindMatches_next(fm, NoLog) IN
       /\ fm' = r.self
       /\ fm_call' = [called |-> TRUE, before |-> fm, ret |-> r.ret, log |-> r.log]
       /\ yielded' = IF r.ret = None THEN yielded ELSE Append(yielded, r.ret[1])

\* A call of next() on the FindCaptures iterator.
FindCapturesNext ==
    /\ Len(cyielded) <= text_len + 1
    /\ LET r == FindCaptures_next(fc, NoLog) IN
       /\ fc' = r.self
       /\ fc_call' = [called |-> TRUE, before |-> fc, ret |-> r.ret, log |-> r.log]
       /\ cyielded' = IF r.ret = None THEN cyielded ELSE Append(cyielded, r.ret[1])

Init == InitIter(MaxLen, FALSE) /\ IdleFlags /\ IdleAst /\ IdleRest

Next ==
    /\ FindMatchesNext
    /\ UNCHANGED <<text_len, re, fc, fc_call, cyielded, flags_vars, ast_vars, rest_vars>>

Spec == Init /\ [][Next]_vars

\* next() is called again and again.
FairSpec == Spec /\ WF_vars(Next)

InitCaptures ==
    InitIter(MaxCapLen, TRUE) /\ IdleFlags /\ IdleAst /\ IdleRest

NextCaptures ==
    /\ FindCapturesNext
    /\ UNCHANGED <<text_len, re, fm, fm_call, yielded, flags_vars, ast_vars, rest_vars>>

SpecCaptures == InitCaptures /\ [][NextCaptures]_vars

\* The two iterators stepped together.
NextPair ==
    /\ FindMatchesNext
    /\ FindCapturesNext
    /\ UNCHANGED <<text_len, re, flags_vars, ast_vars, rest_vars>>

SpecPair == InitCaptures /\ [][NextPair]_vars

\* find_iter and captures_iter called twice each on one engine and text.
InitTwins ==
    /\ InitIter(MaxTwinLen, FALSE)
    /\ IdleTwins
    /\ IdleFlags /\ IdleAst /\ IdleUnion /\ IdlePure

\* A faulty variant: the second iterator keeps its cursor in the first.
TwinMatchesNext_shared ==
    /\ Len(yielded2) <= text_len + 1
    /\ LET r == FindMatches_next(fm, NoLog) IN
       /\ fm' = r.self
       /\ fm2' = r.self
       /\ yielded2' = IF r.ret = None THEN yielded2 ELSE Append(yielded2, r.ret[1])

\* A call of next() on the second FindMatches iterator: next takes
\* &mut self and reads the engine and the text through shared references,
\* so the first iterator is out of its reach.
TwinMatchesNext ==
    /\ Len(yielded2) <= text_len + 1
    /\ LET r == FindMatches_next(fm2, NoLog) IN
       /\ fm2' = r.self
       /\ yielded2' = IF r.ret = None THEN yielded2 ELSE Append(yielded2, r.ret[1])
    /\ fm' = fm

\* A call of next() on the second FindCaptures iterator.
TwinCapturesNext ==
    /\ Len(cyielded2) <= text_len + 1
    /\ LET r == FindCaptures_next(fc2, NoLog) IN
       /\ fc2' = r.self
       /\ cyielded2' = IF r.ret = None THEN cyielded2 ELSE Append(cyielded2, r.ret[1])

\* The calls on the four iterators come in any order.
NextTwins ==
    \/ /\ FindMatchesNext
       /\ UNCHANGED <<text_len, re, fc, fc_call, cyielded, fm2, yielded2,
                      fc2, cyielded2>>
       /\ UNCHANGED <<flags_vars, ast_vars, union_vars, pure_call>>
    \/ /\ TwinMatchesNext
       /\ UNCHANGED <<text_len, re, fm_call, yielded, fc, fc_call, cyielded,
                      fc2, cyielded2>>
       /\ UNCHANGED <<flags_vars, ast_vars, union_vars, pure_call>>
    \/ /\ FindCapturesNext
       /\ UNCHANGED <<text_len, re, fm, fm_call, yielded, fm2, yielded2,
                      fc2, cyielded2>>
       /\ UNCHANGED <<flags_vars, ast_vars, union_vars, pure_call>>
    \/ /\ TwinCapturesNext
       /\ UNCHANGED <<text_len, re, fm, fm_call, yielded, fc, fc_call,
                      cyielded, fm2, yielded2>>
       /\ UNCHANGED <<flags_vars, ast_vars, union_vars, pure_call>>

SpecTwins == InitTwins /\ [][NextTwins]_vars

\* All lists of at most n item kinds.
RECURSIVE KindLists(_)
KindLists(n) ==
    IF n = 0 THEN {<<>>}
    ELSE KindLists(n - 1)
           \cup {Append(l, k) : l \in {m \in KindLists(n - 1) : Len(m) = n - 1},
                                k \in AstFlagsItemKind}

\* The flags start as any list of items, written one after the other in the
\* pattern: the items are a public field, and a list may be built by hand.
InitFlags ==
    /\ items \in {[i \in 1..Len(ks) |-> AstFlagsItem(i, ks[i])] :
                     ks \in KindLists(MaxItems)}
    /\ flags_call = NoFlagsCall
    /\ IdleIter /\ IdleAst /\ IdleRest

\* A call of add_item; the list grows to at most MaxItems items.
AddItem(item) ==
    /\ Len(add_item(items, item).items) <= MaxItems
    /\ LET r == add_item(items, item) IN
       /\ items' = r.items
       /\ flags_call' = [op |-> "add_item", item |-> item, flag |-> "",
                         before |-> items, index |-> r.ret, state |-> None]
    /\ UNCHANGED <<iter_vars, ast_vars, rest_vars>>

\* A call of flag_state.
FlagState(flag) ==
    /\ flags_call' = [op |-> "flag_state", item |-> NoFlagsCall.item,
                      flag |-> flag, before |-> items, index |-> None,
                      state |-> flag_state(items, flag)]
    /\ UNCHANGED <<items, iter_vars, ast_vars, rest_vars>>

\* The item added is read after the items of the list, one or two
\* characters on.
NextFlags ==
    \/ \E kind \in AstFlagsItemKind, o \in {Len(items) + 1, Len(items) + 2} :
          AddItem(AstFlagsItem(o, kind))
    \/ \E flag \in AstFlag : FlagState(flag)

SpecFlags == InitFlags /\ [][NextFlags]_vars

\* The flags a parser starts with: no items.
InitNewFlags ==
    /\ items = <<>>
    /\ flags_call = NoFlagsCall
    /\ IdleIter /\ IdleAst /\ IdleRest

\* A call of add_item, however long the list is; the item is read after
\* the items of the list.
AddNextItem(kind) ==
    LET item == AstFlagsItem(Len(items) + 1, kind)
        r    == add_item(items, item)
    IN
    /\ items' = r.items
    /\ flags_call' = [op |-> "add_item", item |-> item, flag |-> "",
                      before |-> items, index |-> r.ret, state |-> None]
    /\ UNCHANGED <<iter_vars, ast_vars, rest_vars>>

NextNewFlags == \E kind \in AstFlagsItemKind : AddNextItem(kind)

SpecNewFlags == InitNewFlags /\ [][NextNewFlags]_vars

\* A new, empty builder.
NewBuilder(tag, span) == [tag |-> tag, span |-> span, asts |-> <<>>]

InitAst ==
    /\ builder \in {Some(NewBuilder(tag, span)) :
                        tag \in {"Alternation", "Concat"}, span \in BuilderSpans}
    /\ into_call = None
    /\ IdleIter /\ IdleFlags /\ IdleRest

\* The parser pushes a child onto the builder's asts.
PushAst(child) ==
    /\ builder # None
    /\ Len(builder[1].asts) < MaxChildren
    /\ builder' = Some([builder[1] EXCEPT !.asts = Append(@, child)])
    /\ UNCHANGED <<into_call, iter_vars, flags_vars, rest_vars>>

\* AstAlternation::into_ast consumes the builder.
AlternationIntoAst ==
    /\ builder # None
    /\ builder[1].tag = "Alternation"
    /\ into_call' = Some([self |-> builder[1],
                          ast |-> AstAlternation_into_ast(builder[1])])
    /\ builder' = None
    /\ UNCHANGED <<iter_vars, flags_vars, rest_vars>>

\* AstConcat::into_ast consumes the builder.
ConcatIntoAst ==
    /\ builder # None
    /\ builder[1].tag = "Concat"
    /\ into_call' = Some([self |-> builder[1],
                          ast |-> AstConcat_into_ast(builder[1])])
    /\ builder' = None
    /\ UNCHANGED <<iter_vars, flags_vars, rest_vars>>

NextAst ==
    \/ \E child \in ChildAsts : PushAst(child)
    \/ AlternationIntoAst
    \/ ConcatIntoAst

SpecAst == InitAst /\ [][NextAst]_vars

\* A union starts with no items.
InitUnion ==
    /\ union \in {NewUnion(span) : span \in UnionSpans}
    /\ union_call = None
    /\ IdleIter /\ IdleFlags /\ IdleAst /\ IdlePure /\ IdleTwins

\* A call of push; the union grows to at most MaxUnionItems items.
Push(item) ==
    /\ Len(union.items) < MaxUnionItems
    /\ union' = AstClassSetUnion_push(union, item)
    /\ union_call' = Some([self |-> union, item |-> item])
    /\ UNCHANGED <<iter_vars, flags_vars, ast_vars, pure_call, twin_vars>>

NextUnion == \E item \in AstClassSetItem : Push(item)

SpecUnion == InitUnion /\ [][NextUnion]_vars

\* A call of a function of its arguments, before it returns.
Call(fn, arg) == Some([fn |-> fn, arg |-> arg, ret |-> None])

\* The argument of the call is any class name, Unicode class, literal,
\* source text or class-set operation.
InitPure ==
    /\ \/ \E name \in ClassNames : pure_call = Call("from_name", name)
       \/ \E class \in AstClassUnicode : pure_call = Call("is_negated", class)
       \/ \E lit \in HexLiterals : pure_call = Call("fmt", lit)
       \/ \E source \in LiteralSources : pure_call = Call("roundtrip", source)
       \/ \E op \in AstClassSetOps : pure_call = Call("fmt_op", op)
    /\ IdleIter /\ IdleFlags /\ IdleAst /\ IdleUnion /\ IdleTwins

\* The call returns what the function gives for the argument.
Return(fn, ret) ==
    /\ pure_call # None
    /\ pure_call[1].fn = fn
    /\ pure_call[1].ret = None
    /\ pure_call' = Some([pure_call[1] EXCEPT !.ret = Some(ret)])
    /\ UNCHANGED <<iter_vars, flags_vars, ast_vars, union_vars, twin_vars>>

FromName == Return("from_name", AstClassAsciiKind_from_name(pure_call[1].arg))

IsNegated == Return("is_negated", AstClassUnicode_is_negated(pure_call[1].arg))

FmtLiteral == Return("fmt", AstLiteral_fmt(pure_call[1].arg))

\* tests::roundtrip_with: the source is parsed and the Ast printed.
RoundTrip ==
    LET ast == ParseLiteral(pure_call[1].arg)
    IN  Return("roundtrip", [ast |-> ast, text |-> AstLiteral_fmt(ast)])

FmtOp == Return("fmt_op", AstClassSetOp_fmt(pure_call[1].arg))

NextPure == FromName \/ IsNegated \/ FmtLiteral \/ RoundTrip \/ FmtOp

SpecPure == InitPure /\ [][NextPure]_vars

----------------------------------------------------------------------------
(* Properties of FindMatches.                                              *)

IsEmptyMatch(m) == m[1] = m[2]

\* C1: a FindMatches iterator over a text of length N yields at most N + 1
\* matches, and repeated calls of next() eventually return none.
C1_BoundedAndTerminates ==
    /\ [](Len(yielded) <= text_len + 1)
    /\ <>(fm_call.called /\ fm_call.ret = None)

\* C1 witness: the engine matched the empty string at every offset of a text
\* of length at least 2, N + 1 matches were yielded and next() returned none.
C1_Witness ==
    /\ text_len >= 2
    /\ Len(yielded) = text_len + 1
    /\ \A i \in 1..Len(yielded) : yielded[i] = <<i - 1, i - 1>>
    /\ fm_call.called /\ fm_call.ret = None

\* C2: no two successively yielded matches are both zero-width at the same
\* offset.
C2_NoRepeatedEmptyMatch ==
    \A i \in 1..(Len(yielded) - 1) :
        IsEmptyMatch(yielded[i]) /\ IsEmptyMatch(yielded[i + 1])
            => yielded[i][1] # yielded[i + 1][1]

\* C2 witness: two successive zero-width matches were yielded, the second
\* after a skip of the duplicate of the first.
C2_Witness ==
    /\ Len(yielded) >= 2
    /\ IsEmptyMatch(yielded[Len(yielded) - 1])
    /\ IsEmptyMatch(yielded[Len(yielded)])
    /\ fm_call.ret # None
    /\ fm_call.log.next_after_empty # <<>>

\* C3: each yielded match starts at or after the end of the match yielded
\* before it.
C3_NonOverlapping ==
    \A i \in 1..(Len(yielded) - 1) : yielded[i + 1][1] >= yielded[i][2]

\* C3 witness: a non-empty match was yielded and the next match starts
\* exactly where it ended.
C3_Witness ==
    /\ Len(yielded) >= 2
    /\ ~IsEmptyMatch(yielded[1])
    /\ yielded[2][1] = yielded[1][2]

\* C4: right after a yield last_end is the end of the yielded match, and it
\* is strictly greater than it was right after the yield before: the ends
\* of the yielded matches strictly increase.
C4_CursorStrictlyAdvances ==
    /\ \A i \in 1..(Len(yielded) - 1) : yielded[i + 1][2] > yielded[i][2]
    /\ fm_call.ret # None =>
          /\ fm.last_end = yielded[Len(yielded)][2]
          /\ Len(yielded) >= 2 => fm.last_end > yielded[Len(yielded) - 1][2]

\* C4 witness: a third match was just yielded, and it is zero-width at the
\* end of the match before it.
C4_Witness ==
    /\ Len(yielded) >= 3
    /\ fm_call.ret # None
    /\ IsEmptyMatch(yielded[Len(yielded)])

\* C5: one step with r = find_at(last_end): none ends the sequence; a
\* zero-width r whose end equals last_match is not yielded and the search is
\* retried from next_after_empty(last_end) (or the sequence ends when
\* last_end has reached the text length); every other r is yielded at once,
\* with last_end = end and last_match = Some(end) and no retry.
C5_StepAsClaimed ==
    (fm_call.called /\ fm_call.before.last_end <= text_len) =>
        LET before == fm_call.before
            r      == re.find_at[before.last_end + 1]
        IN
        IF r = None THEN fm_call.ret = None /\ fm = before
        ELSE IF IsEmptyMatch(r[1]) /\ Some(r[1][2]) = before.last_match
        THEN /\ fm_call.ret # r
             /\ \/ fm_call.log.next_after_empty = <<before.last_end>>
                \/ before.last_end >= text_len /\ fm_call.ret = None
        ELSE /\ fm_call.ret = r
             /\ fm = [last_end |-> r[1][2], last_match |-> Some(r[1][2])]
             /\ fm_call.log.next_after_empty = <<>>

----------------------------------------------------------------------------
(* Properties of FindCaptures.                                             *)

\* The slots the engine writes in one call of captures_at from start, read
\* off the engine's table: 0 and 1 hold the match, 2 and 3 the group's span
\* when the group took part.
WrittenBy(start, i) ==
    LET c == re.captures_at[start + 1] IN
    IF i \in {0, 1} THEN Some(c.m[1][i + 1])
    ELSE IF c.g = None THEN None ELSE Some(c.g[1][i - 1])

\* C6: every yielded vector has exactly slots_len() entries, and the vector
\* just yielded holds exactly what the call of captures_at that produced the
\* match wrote: a slot that call did not write is unset.
C6_SlotsOfTheYieldingCall ==
    /\ \A k \in 1..Len(cyielded) :
          /\ DOMAIN cyielded[k] = 0..(slots_len - 1)
          /\ cyielded[k][0] # None /\ cyielded[k][1] # None
    /\ fc_call.ret # None =>
          LET start == fc_call.log.find_at[Len(fc_call.log.find_at)] IN
          /\ fc_call.ret[1] = cyielded[Len(cyielded)]
          /\ \A i \in 0..(slots_len - 1) : fc_call.ret[1][i] = WrittenBy(start, i)

\* C6 witness: within one next() the group took part in a skipped zero-width
\* attempt and not in the match then yielded, after an earlier iteration in
\* which it took part too; slots 2 and 3 are unset, 0 and 1 are set.
C6_Witness ==
    /\ Len(cyielded) >= 2
    /\ cyielded[1][2] # None
    /\ fc_call.ret # None
    /\ Len(fc_call.log.find_at) = 2
    /\ re.captures_at[fc_call.log.find_at[1] + 1].g # None
    /\ fc_call.ret[1][2] = None /\ fc_call.ret[1][3] = None
    /\ fc_call.ret[1][0] # None /\ fc_call.ret[1][1] # None

\* C7: stepped together over the same text and engine, a FindCaptures and a
\* FindMatches iterator hold equal (last_end, last_match), end at the same
\* step, and FindCaptures yields one vector per match, in the same order.
C7_SameProtocol ==
    /\ fc = fm
    /\ fc_call.called = fm_call.called
    /\ (fc_call.ret = None) <=> (fm_call.ret = None)
    /\ fc_call.log = fm_call.log
    /\ Len(cyielded) = Len(yielded)
    /\ \A k \in 1..Len(yielded) :
          /\ cyielded[k][0] = Some(yielded[k][1])
          /\ cyielded[k][1] = Some(yielded[k][2])

\* C7 witness: both iterators yielded their second result after skipping a
\* duplicate zero-width match.
C7_Witness ==
    /\ Len(yielded) >= 2
    /\ Len(cyielded) >= 2
    /\ fm_call.ret # None
    /\ fc_call.ret # None
    /\ fm_call.log.next_after_empty # <<>>

\* The call of next() recorded in call, which left the iterator as after,
\* began with a search from the end of the text that found the zero-width
\* match the iterator yielded last.
DuplicateAtTextEnd(call) ==
    /\ call.called
    /\ call.before.last_end = text_len
    /\ find_at(text_len) = Some(<<text_len, text_len>>)
    /\ call.before.last_match = Some(text_len)

\* What C18 says of such a call: none is returned, find_at was called once
\* and next_after_empty not at all, and the iterator is as it was.
EndsAtOnce(call, after) ==
    /\ call.ret = None
    /\ call.log.find_at = <<text_len>>
    /\ call.log.next_after_empty = <<>>
    /\ after = call.before

\* C18: when find_at returns a zero-width match that duplicates the
\* previous position and last_end has reached the text length, next()
\* returns none without calling next_after_empty and without changing
\* last_end or last_match, in FindMatches and in FindCaptures; and
\* next_after_empty is never called at or past the end of the text.
C18_EndsAtTextEnd ==
    /\ DuplicateAtTextEnd(fm_call) => EndsAtOnce(fm_call, fm)
    /\ DuplicateAtTextEnd(fc_call) => EndsAtOnce(fc_call, fc)
    /\ \A k \in 1..Len(fm_call.log.next_after_empty) :
           fm_call.log.next_after_empty[k] < text_len
    /\ \A k \in 1..Len(fc_call.log.next_after_empty) :
           fc_call.log.next_after_empty[k] < text_len

\* C18 witness: on a text that is not empty, both iterators yielded a
\* zero-width match at the end of the text, and the next call ended the
\* sequence.
C18_Witness ==
    /\ text_len > 0
    /\ DuplicateAtTextEnd(fm_call) /\ DuplicateAtTextEnd(fc_call)
    /\ yielded # <<>> /\ yielded[Len(yielded)] = <<text_len, text_len>>
    /\ cyielded # <<>>
    /\ fm_call.ret = None /\ fc_call.ret = None

\* C19: each skip of a zero-width match moves last_end to
\* next_after_empty(last_end), which is greater, and the search is retried
\* from there; last_match is as it was unless a match is yielded; a skipped
\* duplicate of the match yielded last is not returned; one call skips at
\* most as many times as the text is long.
C19_SkipAdvances ==
    fm_call.called =>
        LET log   == fm_call.log
            skips == Len(log.next_after_empty)
        IN
        /\ skips <= text_len
        /\ \A k \in 1..skips :
               /\ log.next_after_empty[k] = log.find_at[k]
               /\ next_after_empty(log.find_at[k]) > log.find_at[k]
               /\ IF next_after_empty(log.find_at[k]) <= text_len
                  THEN /\ Len(log.find_at) >= k + 1
                       /\ log.find_at[k + 1] = next_after_empty(log.find_at[k])
                  ELSE /\ Len(log.find_at) = k
                       /\ fm_call.ret = None
               /\ find_at(log.find_at[k]) # None
               /\ IsEmptyMatch(find_at(log.find_at[k])[1])
               /\ fm_call.before.last_match = Some(find_at(log.find_at[k])[1][2])
                     => fm_call.ret # find_at(log.find_at[k])
        /\ fm_call.ret = None =>
               /\ fm.last_match = fm_call.before.last_match
               /\ skips > 0 =>
                     fm.last_end = next_after_empty(log.next_after_empty[skips])
               /\ skips > 0 => fm.last_end > fm_call.before.last_end

\* C19 witness: a call skipped the duplicate of the zero-width match
\* yielded before it, found nothing further on and returned none, the
\* cursor moved and last_match left as it was.
C19_Witness ==
    /\ fm_call.called
    /\ Len(fm_call.log.next_after_empty) = 1
    /\ fm_call.before.last_match = Some(fm_call.before.last_end)
    /\ find_at(fm_call.before.last_end)
          = Some(<<fm_call.before.last_end, fm_call.before.last_end>>)
    /\ fm_call.ret = None
    /\ fm.last_end > fm_call.before.last_end
    /\ fm.last_match = fm_call.before.last_match

\* The matches a FindMatches iterator yields from self on, run alone
\* until it returns none.
RECURSIVE SoloMatches(_)
SoloMatches(self) ==
    LET r == FindMatches_next(self, NoLog)
    IN  IF r.ret = None THEN <<>> ELSE <<r.ret[1]>> \o SoloMatches(r.self)

\* The slot vectors a FindCaptures iterator yields from self on, run alone.
RECURSIVE SoloCaptures(_)
SoloCaptures(self) ==
    LET r == FindCaptures_next(self, NoLog)
    IN  IF r.ret = None THEN <<>> ELSE <<r.ret[1]>> \o SoloCaptures(r.self)

\* seq is what an iterator has yielded of the sequence solo, and rest what
\* it has yet to yield: seq is the first entries of solo and rest the others.
YieldedOf(seq, solo, rest) ==
    /\ Len(seq) <= Len(solo)
    /\ seq = SubSeq(solo, 1, Len(seq))
    /\ solo = seq \o rest

C22_ExhaustionIsStable ==
    [][/\ (fm_call.called /\ fm_call.ret = None) =>
             (fm_call'.ret = None /\ yielded' = yielded)
       /\ (fc_call.called /\ fc_call.ret = None) =>
             (fc_call'.ret = None /\ cyielded' = cyielded)]_vars

\* C22 witness: a call returned none from a cursor that only a call that
\* skipped and returned none leaves behind: past the end of the match
\* yielded last.
C22_Witness ==
    /\ fm_call.called /\ fm_call.ret = None
    /\ fm_call.before = fm
    /\ fm.last_match # None
    /\ fm.last_end > fm.last_match[1]
    /\ fm.last_end <= text_len
    /\ fc_call.called /\ fc_call.ret = None /\ fc_call.before = fc

\* C23: one call of next() skips at most once: it calls find_at at most
\* twice and next_after_empty at most once, and after the skip last_end is
\* greater than last_match, so that the retried search yields its result
\* or ends the sequence.
C23_AtMostOneSkip ==
    fm_call.called =>
        LET log == fm_call.log IN
        /\ Len(log.find_at) <= 2
        /\ Len(log.next_after_empty) <= 1
        /\ Len(log.next_after_empty) = 1 =>
              /\ fm_call.before.last_match = Some(log.next_after_empty[1])
              /\ next_after_empty(log.next_after_empty[1])
                    > fm_call.before.last_match[1]
              /\ Len(log.find_at) = 2 =>
                    fm_call.ret = find_at(log.find_at[2])

\* C23 witness: a call skipped once, searched again and yielded a
\* zero-width match found by the second search.
C23_Witness ==
    /\ fm_call.called
    /\ Len(fm_call.log.next_after_empty) = 1
    /\ Len(fm_call.log.find_at) = 2
    /\ fm_call.ret # None
    /\ IsEmptyMatch(fm_call.ret[1])

\* The starts the call gave to the engine are within the text, and a call
\* whose skip moved the cursor past the text returned none.
StartsWithinText(call) ==
    /\ \A k \in 1..Len(call.log.find_at) : call.log.find_at[k] <= text_len
    /\ \A k \in 1..Len(call.log.next_after_empty) :
           next_after_empty(call.log.next_after_empty[k]) > text_len
               => call.ret = None /\ Len(call.log.find_at) = k

\* C24: the iterators never call find_at or captures_at with a start
\* greater than the text length, even when next_after_empty returns an
\* offset past the end of the text; next() returns none then.
C24_StartWithinText ==
    /\ StartsWithinText(fm_call)
    /\ StartsWithinText(fc_call)
    /\ fm.last_end > text_len => FindMatches_next(fm, NoLog).log = NoLog
    /\ fc.last_end > text_len => FindCaptures_next(fc, NoLog).log = NoLog

\* C24 witness: next_after_empty moved both cursors past the text, the
\* calls returned none without a second search, and the cursors stay there.
C24_Witness ==
    /\ fm_call.called /\ fc_call.called
    /\ Len(fm_call.log.next_after_empty) = 1
    /\ Len(fm_call.log.find_at) = 1
    /\ Len(fc_call.log.find_at) = 1
    /\ fm.last_end > text_len /\ fc.last_end > text_len
    /\ fm_call.ret = None /\ fc_call.ret = None

\* C28: last_match is none exactly when nothing has been yielded; when it
\* is Some(m), m is the end of the match yielded last and m <= last_end;
\* last_end = m right after a yield, and last_end > m only after a skip,
\* which moved it to next_after_empty(m).
C28_LastMatchInvariant ==
    /\ (fm.last_match = None) <=> (yielded = <<>>)
    /\ fm.last_match = None => fm.last_end = 0
    /\ fm.last_match # None =>
          LET m == fm.last_match[1] IN
          /\ m = yielded[Len(yielded)][2]
          /\ m <= fm.last_end
          /\ fm_call.ret # None => fm.last_end = m
          /\ fm.last_end > m =>
                /\ fm_call.ret = None
                /\ m < text_len
                /\ fm.last_end = next_after_empty(m)

\* C28 witness: after two yields a call skipped and returned none, leaving
\* last_end past last_match, the end of the second match.
C28_Witness ==
    /\ Len(yielded) = 2
    /\ fm_call.ret = None
    /\ fm.last_match = Some(yielded[2][2])
    /\ fm.last_end > fm.last_match[1]
    /\ Len(fm_call.log.next_after_empty) = 1

----------------------------------------------------------------------------
(* Properties of the flags model.                                          *)

KindsOf(its) == [i \in 1..Len(its) |-> its[i].kind]

\* C8: add_item(item) returns Some(i), i the index of an existing item of
\* item's kind, and leaves the list unchanged when there is such an item
\* (spans are not compared); otherwise it appends item and returns none.
\* Adding Flag(CaseInsensitive) twice to an empty list gives none, Some(0).
C8_AddItem ==
    flags_call.op = "add_item" =>
        LET before == flags_call.before
            item   == flags_call.item
            same   == {i \in 1..Len(before) : before[i].kind = item.kind}
        IN
        /\ IF same # {}
           THEN /\ \E i \in same : flags_call.index = Some(i - 1)
                /\ items = before
           ELSE /\ flags_call.index = None
                /\ items = Append(before, item)
        /\ (before = <<>> /\ item.kind = Flag("CaseInsensitive"))
              => flags_call.index = None /\ KindsOf(items) = <<item.kind>>
        /\ (KindsOf(before) = <<Flag("CaseInsensitive")>>
                /\ item.kind = Flag("CaseInsensitive"))
              => flags_call.index = Some(0)

\* C8 witness: Flag(CaseInsensitive) is added to a list that holds only
\* Flag(CaseInsensitive), read at another place: Some(0), list unchanged.
C8_Witness ==
    /\ flags_call.op = "add_item"
    /\ flags_call.before = <<AstFlagsItem(1, Flag("CaseInsensitive"))>>
    /\ flags_call.item = AstFlagsItem(2, Flag("CaseInsensitive"))
    /\ flags_call.index = Some(0)
    /\ items = flags_call.before

\* C9: flag_state(f) is none iff no Flag(f) item occurs, Some(true) iff one
\* occurs and no Negation precedes the first, Some(false) iff at least one
\* Negation precedes the first; for [Flag(i), Negation, Flag(s)] the states
\* of i, s, u are Some(true), Some(false), none.
C9_FlagState ==
    flags_call.op = "flag_state" =>
        LET f     == flags_call.flag
            occ   == {i \in 1..Len(items) : items[i].kind = Flag(f)}
            first == CHOOSE i \in occ : \A j \in occ : i <= j
            neg   == \E j \in 1..Len(items) :
                        j < first /\ items[j].kind = Negation
        IN
        /\ flags_call.state = None <=> occ = {}
        /\ flags_call.state = Some(TRUE) <=> (occ # {} /\ ~neg)
        /\ flags_call.state = Some(FALSE) <=> (occ # {} /\ neg)
        /\ KindsOf(items) = <<Flag("CaseInsensitive"), Negation,
                              Flag("DotMatchesNewLine")>> =>
              /\ f = "CaseInsensitive" => flags_call.state = Some(TRUE)
              /\ f = "DotMatchesNewLine" => flags_call.state = Some(FALSE)
              /\ f = "Unicode" => flags_call.state = None

\* C9 witness: two Negation items precede the only Flag(s) of a list built
\* by hand, and the state of s is Some(false).
C9_Witness ==
    /\ flags_call.op = "flag_state"
    /\ KindsOf(items) = <<Negation, Negation, Flag("DotMatchesNewLine")>>
    /\ flags_call.flag = "DotMatchesNewLine"
    /\ flags_call.state = Some(FALSE)

\* C25: after any sequence of add_item calls on a list that was empty,
\* the kinds of the items are pairwise distinct, so that there is at most
\* one Negation, at most one item for each flag and never more than 7
\* items; the items kept stay in the order in which they were first added:
\* a call leaves the list as it was or puts one item of a new kind last.
C25_DistinctKinds ==
    /\ [](/\ \A i, j \in 1..Len(items) :
                 items[i].kind = items[j].kind => i = j
          /\ Cardinality({i \in 1..Len(items) : items[i].kind = Negation}) <= 1
          /\ \A f \in AstFlag :
                 Cardinality({i \in 1..Len(items) : items[i].kind = Flag(f)}) <= 1
          /\ Len(items) <= 7)
    /\ [][\/ items' = items
          \/ /\ Len(items') = Len(items) + 1
             /\ SubSeq(items', 1, Len(items)) = items
             /\ \A i \in 1..Len(items) :
                    items[i].kind # items'[Len(items')].kind]_vars

\* C25 witness: the list holds 7 items, and the call before was turned
\* down as a duplicate of an item that is not the last.
C25_Witness ==
    /\ Len(items) = 7
    /\ flags_call.op = "add_item"
    /\ flags_call.index # None
    /\ flags_call.index[1] < 6
    /\ flags_call.before = items

\* C26: once flag_state(f) is Some(b) it is the same Some(b) after every
\* later call of add_item, the addition of a Negation included.
C26_FlagStateIsStable ==
    [][\A f \in AstFlag :
          flag_state(items, f) # None =>
              flag_state(items', f) = flag_state(items, f)]_vars

\* C26 witness: a Negation was added after a flag, and the flag is still
\* on.
C26_Witness ==
    /\ flags_call.op = "add_item"
    /\ flags_call.item.kind = Negation
    /\ flags_call.index = None
    /\ flags_call.before # <<>>
    /\ \E f \in AstFlag :
          /\ flag_state(flags_call.before, f) = Some(TRUE)
          /\ flag_state(items, f) = Some(TRUE)

----------------------------------------------------------------------------
(* Properties of the Ast builders.                                         *)

\* C10: into_ast of a builder with no child is Empty with the builder's
\* span; with one child it is that child, span included; with two or more
\* children it is the Alternation or Concat with the children in order.
C10_IntoAst ==
    into_call # None =>
        LET self == into_call[1].self
            ast  == into_call[1].ast
        IN
        /\ Len(self.asts) = 0 => ast.tag = "Empty" /\ AstSpan(ast) = self.span
        /\ Len(self.asts) = 1 =>
              ast = self.asts[1] /\ AstSpan(ast) = AstSpan(self.asts[1])
        /\ Len(self.asts) >= 2 => ast.tag = self.tag /\ ast.asts = self.asts

\* C10 witness: an Alternation builder with one child, whose span is not the
\* builder's, was turned into that child.
C10_Witness ==
    /\ into_call # None
    /\ into_call[1].self.tag = "Alternation"
    /\ Len(into_call[1].self.asts) = 1
    /\ into_call[1].self.span # AstSpan(into_call[1].self.asts[1])
    /\ AstSpan(into_call[1].ast) # into_call[1].self.span

\* A tree is canonical when no Alternation or Concat node in it, the root or
\* a descendant, has fewer than two children.
RECURSIVE Canonical(_)
Canonical(ast) ==
    /\ ast.tag \in {"Alternation", "Concat"} => Len(ast.asts) >= 2
    /\ \A i \in 1..Len(ast.asts) : Canonical(ast.asts[i])

\* C11 as stated: in the Ast returned by into_ast, no Alternation or Concat
\* node anywhere in the tree has fewer than two children.
C11_CanonicalEverywhere ==
    into_call # None => Canonical(into_call[1].ast)

\* C11, amended: into_ast collapses the builder itself and no deeper, so
\* the Ast it returns is canonical everywhere provided every child the
\* builder holds is canonical.
C11_CanonicalGivenCanonicalChildren ==
    into_call # None =>
        LET self == into_call[1].self
            ast  == into_call[1].ast
        IN  (\A i \in 1..Len(self.asts) : Canonical(self.asts[i]))
                => Canonical(ast)

\* C11 witness: a Concat builder of canonical children, one of them a nested
\* Concat, became a Concat node.
C11_Witness ==
    /\ into_call # None
    /\ into_call[1].self.tag = "Concat"
    /\ Len(into_call[1].self.asts) >= 2
    /\ \A i \in 1..Len(into_call[1].self.asts) :
           Canonical(into_call[1].self.asts[i])
    /\ \E i \in 1..Len(into_call[1].self.asts) :
           into_call[1].self.asts[i].tag = "Concat"
    /\ into_call[1].ast.tag = "Concat"

\* C27: into_ast does not change the printed text: for a builder of any
\* number of children, the Ast that into_ast returns prints as the
\* Alternation or Concat node that holds the builder's children as they
\* are.
C27_SameText ==
    into_call # None =>
        LET self == into_call[1].self
            ast  == into_call[1].ast
        IN  Ast_fmt(ast) = Ast_fmt(Node(self.tag, self.span, self.asts))

\* C27 witness: an Alternation builder of one child became that child, which
\* is not the Alternation node of one child, and is printed as "a".
C27_Witness ==
    /\ into_call # None
    /\ into_call[1].self.tag = "Alternation"
    /\ Len(into_call[1].self.asts) = 1
    /\ into_call[1].ast.tag = "Literal"
    /\ into_call[1].ast #
          Node("Alternation", into_call[1].self.span, into_call[1].self.asts)
    /\ Ast_fmt(into_call[1].ast) = <<"a">>

----------------------------------------------------------------------------
(* Properties of the class-set union.                                      *)

\* C12: push appends the item last and leaves the existing items as they
\* were; it always sets the end of the union's span to the end of the
\* item's span; it sets the start to the start of the item's span exactly
\* when the union held no items, and leaves it otherwise.  After one or
\* more pushes onto an empty union the span runs from the start of the
\* first item to the end of the last.
C12_Push ==
    union_call # None =>
        LET self == union_call[1].self
            item == union_call[1].item
            n    == Len(self.items)
        IN
        /\ Len(union.items) = n + 1
        /\ union.items[n + 1] = item
        /\ \A i \in 1..n : union.items[i] = self.items[i]
        /\ union.span.end = ItemSpan(item).end
        /\ n = 0 => union.span.start = ItemSpan(item).start
        /\ n # 0 => union.span.start = self.span.start
        /\ union.span = Span(ItemSpan(union.items[1]).start,
                             ItemSpan(union.items[Len(union.items)]).end)

\* C12 witness: a push onto a union that held items, of an item that
\* starts elsewhere than the union and ends elsewhere than it did.
C12_Witness ==
    /\ union_call # None
    /\ Len(union_call[1].self.items) >= 2
    /\ ItemSpan(union_call[1].item).start # union_call[1].self.span.start
    /\ ItemSpan(union_call[1].item).end # union_call[1].self.span.end
    /\ union.span.start # ItemSpan(union_call[1].item).start

\* The items of a union are well formed and in source order: each span has
\* its start at or before its end, and starts at or after the end of the
\* item before it.
LeftToRight(its) ==
    /\ \A i \in 1..Len(its) : ItemSpan(its[i]).start <= ItemSpan(its[i]).end
    /\ \A i \in 1..(Len(its) - 1) :
           ItemSpan(its[i]).end <= ItemSpan(its[i + 1]).start

\* C20: when well-formed items are pushed in source order onto a union
\* that started empty, after every push the union's span has its start at
\* or before its end and contains the span of every item.
C20_SpanContainsItems ==
    (Len(union.items) >= 1 /\ LeftToRight(union.items)) =>
        /\ union.span.start <= union.span.end
        /\ \A i \in 1..Len(union.items) :
               /\ union.span.start <= ItemSpan(union.items[i]).start
               /\ ItemSpan(union.items[i]).end <= union.span.end

\* C20 witness: three items pushed in source order, with a gap between the
\* first two, the last of them ending further right than the one before.
C20_Witness ==
    /\ Len(union.items) = 3
    /\ LeftToRight(union.items)
    /\ ItemSpan(union.items[1]).end < ItemSpan(union.items[2]).start
    /\ union.span = Span(0, 2)
    /\ union_call # None
    /\ union_call[1].self.span.end < 2

----------------------------------------------------------------------------
(* Properties of the classes and of the printed literals.                  *)

\* The call of fn that has returned, if the state holds one.
Returned(fn) ==
    /\ pure_call # None
    /\ pure_call[1].fn = fn
    /\ pure_call[1].ret # None

\* C13: is_negated is negated XOR (the kind is NamedValue with op
\* NotEqual): the raw flag for every kind except NamedValue with NotEqual,
\* where it is the opposite of the flag.
C13_IsNegated ==
    Returned("is_negated") =>
        LET self     == pure_call[1].arg
            ret      == pure_call[1].ret[1]
            notEqual == self.kind.tag = "NamedValue" /\ self.kind.op = "NotEqual"
        IN
        /\ ret = (self.negated # notEqual)
        /\ ~notEqual => ret = self.negated
        /\ notEqual => ret = ~self.negated

\* C13 witness: a class written \P{scx!=Katakana} is not negated.
C13_Witness ==
    /\ Returned("is_negated")
    /\ pure_call[1].arg.negated
    /\ pure_call[1].arg.kind = NamedValue("NotEqual", "scx", "Katakana")
    /\ pure_call[1].ret = Some(FALSE)

\* The 14 names of the ASCII classes.
LowercaseNames ==
    {"alnum", "alpha", "ascii", "blank", "cntrl", "digit", "graph", "lower",
     "print", "punct", "space", "upper", "word", "xdigit"}

\* C14: from_name returns the matching kind, the one printed under that
\* name, for each of the 14 lowercase names and none for every other
\* string; no other name gives the kind a name gives.
C14_FromName ==
    Returned("from_name") =>
        LET name == pure_call[1].arg
            ret  == pure_call[1].ret[1]
        IN
        /\ name \in LowercaseNames =>
              /\ ret # None
              /\ ret[1] \in AstClassAsciiKind
              /\ AstClassAscii_name(ret[1]) = name
        /\ name \notin LowercaseNames => ret = None
        /\ ret # None =>
              \A other \in ClassNames \ {name} :
                  AstClassAsciiKind_from_name(other) # ret

\* C14 witness: the uppercase spelling of a name is looked up and not found.
C14_Witness ==
    /\ Returned("from_name")
    /\ pure_call[1].arg = "DIGIT"
    /\ pure_call[1].ret = Some(None)

\* The number a text of hex digits writes.
RECURSIVE HexValue(_)
HexValue(text) ==
    IF text = <<>> THEN 0
    ELSE LET d == CHOOSE v \in 0..15 : Digits(v, 16) = <<text[Len(text)]>>
         IN  16 * HexValue(SubSeq(text, 1, Len(text) - 1)) + d

\* The digits that follow the prefix of a printed hex literal.
HexDigitsOf(lit, text) ==
    IF lit.kind.tag = "HexFixed" THEN SubSeq(text, 3, Len(text))
    ELSE SubSeq(text, 4, Len(text) - 1)

\* C16 as stated: a HexFixed literal is printed with exactly 2, 4 or 8
\* digits for the kinds X, UnicodeShort and UnicodeLong, whatever scalar
\* value it carries; a HexBrace literal with the fewest digits that write c.
C16_FixedDigits ==
    Returned("fmt") =>
        LET lit    == pure_call[1].arg
            digits == HexDigitsOf(lit, pure_call[1].ret[1])
        IN
        /\ HexValue(digits) = lit.c
        /\ lit.kind.tag = "HexFixed" =>
              Len(digits) = AstHexLiteralKind_digits(lit.kind.hex)
        /\ lit.kind.tag = "HexBrace" =>
              digits = <<"0">> \/ digits[1] # "0"

\* c is written in at most width hex digits; a scalar value is at most
\* 10FFFF and is always written in 8.
Fits(c, width) == width >= 8 \/ c < 16^width

\* C16, amended: the width is a least width.  A HexFixed literal is
\* printed with exactly 2, 4 or 8 digits when c is written in that many
\* digits (always so for UnicodeLong), and with all the digits of c when it
\* is not; a HexBrace literal with the fewest digits that write c.
C16_FixedDigitsWhenInRange ==
    Returned("fmt") =>
        LET lit    == pure_call[1].arg
            digits == HexDigitsOf(lit, pure_call[1].ret[1])
            width  == AstHexLiteralKind_digits(lit.kind.hex)
        IN
        /\ HexValue(digits) = lit.c
        /\ lit.kind.tag = "HexFixed" /\ Fits(lit.c, width) =>
              Len(digits) = width
        /\ lit.kind.tag = "HexFixed" /\ ~Fits(lit.c, width) =>
              Len(digits) > width /\ digits[1] # "0"
        /\ lit.kind.tag = "HexFixed" /\ lit.kind.hex = "UnicodeLong" =>
              Len(digits) = 8
        /\ lit.kind.tag = "HexBrace" =>
              digits = <<"0">> \/ digits[1] # "0"

\* C16 witness: the literal \x07, whose value is one digit, is printed
\* with two.
C16_Witness ==
    /\ Returned("fmt")
    /\ pure_call[1].arg.kind = HexFixed("X")
    /\ pure_call[1].arg.c = 7
    /\ pure_call[1].ret = Some(<<"\\", "x", "0", "7">>)

\* The digits of an escape: what follows the backslash of an octal escape,
\* the letter of a hex escape, or stands between the braces.
DigitsOfSource(source) ==
    IF source[2] \notin {"x", "u", "U"} THEN SubSeq(source, 2, Len(source))
    ELSE IF source[3] = "{" THEN SubSeq(source, 4, Len(source) - 1)
    ELSE SubSeq(source, 3, Len(source))

\* An escape is in the printer's spelling when its letters are in upper
\* case and, unless its digits are the 2, 4 or 8 of a hex escape without
\* braces, it begins with no zero that another digit follows.
PrinterSpelling(source) ==
    LET digits == DigitsOfSource(source)
        fixed  == source[2] \in {"x", "u", "U"} /\ source[3] # "{"
    IN  /\ \A i \in 1..Len(digits) :
               digits[i] \notin {"a", "b", "c", "d", "e", "f"}
        /\ fixed \/ Len(digits) = 1 \/ digits[1] # "0"

RECURSIVE Operands(_)
Operands(op) ==
    IF op.tag = "Union" THEN <<op>>
    ELSE Operands(op.x.lhs) \o Operands(op.x.rhs)

RECURSIVE Operators(_)
Operators(op) ==
    IF op.tag = "Union" THEN <<>>
    ELSE Operators(op.x.lhs) \o <<op.x.kind>> \o Operators(op.x.rhs)

\* The two characters that stand for a kind of operation.
OperatorText(kind) ==
    IF kind = "Intersection" THEN <<"&", "&">>
    ELSE IF kind = "Difference" THEN <<"-", "-">>
    ELSE <<"~", "~">>

\* The texts of the unions with the operators between them, from the i-th
\* union on.
RECURSIVE Flat(_, _, _)
Flat(operands, operators, i) ==
    IF i = Len(operands) THEN AstClassSetUnion_fmt(operands[i].x)
    ELSE AstClassSetUnion_fmt(operands[i].x) \o OperatorText(operators[i])
         \o Flat(operands, operators, i + 1)

\* (a k1 b) k2 c nested the other way: a k1 (b k2 c).
RightNested(op) ==
    BinaryOp(AstClassSetBinaryOp(op.x.lhs.x.kind, op.x.lhs.x.lhs,
        BinaryOp(AstClassSetBinaryOp(op.x.kind, op.x.lhs.x.rhs, op.x.rhs))))

\* C21: a binary operation is printed as the text of lhs, the two
\* characters of its operator and the text of rhs, with nothing added: the
\* text is that of the unions in order with the operators between them, so
\* that an operation nested to the left prints as the different operation
\* with the same operands and operators nested to the right.
C21_BinaryOpText ==
    Returned("fmt_op") =>
        LET self == pure_call[1].arg
            ret  == pure_call[1].ret[1]
        IN
        /\ self.tag = "BinaryOp" =>
              /\ ret = AstClassSetOp_fmt(self.x.lhs)
                       \o OperatorText(self.x.kind)
                       \o AstClassSetOp_fmt(self.x.rhs)
              /\ Len(OperatorText(self.x.kind)) = 2
        /\ ret = Flat(Operands(self), Operators(self), 1)
        /\ (self.tag = "BinaryOp" /\ self.x.lhs.tag = "BinaryOp") =>
              /\ RightNested(self) # self
              /\ Operands(RightNested(self)) = Operands(self)
              /\ Operators(RightNested(self)) = Operators(self)
              /\ AstClassSetOp_fmt(RightNested(self)) = ret

\* C21 witness: (\x61--\x{61})&&\x61, nested to the left, is printed
\* without brackets.
C21_Witness ==
    /\ Returned("fmt_op")
    /\ pure_call[1].arg.tag = "BinaryOp"
    /\ pure_call[1].arg.x.kind = "Intersection"
    /\ pure_call[1].arg.x.lhs.tag = "BinaryOp"
    /\ pure_call[1].arg.x.lhs.x.kind = "Difference"
    /\ pure_call[1].arg.x.rhs.tag = "Union"
    /\ pure_call[1].ret[1] =
          <<"\\", "x", "6", "1", "-", "-", "\\", "x", "{", "6", "1", "}",
            "&", "&", "\\", "x", "6", "1">>

====
